---- MODULE Spec2Model ----
(***************************************************************************)
(* Model of tensorflow/contrib/distributions/python/ops/bernoulli.py.      *)
(*                                                                         *)
(* Real numbers are fixed-point integers with One = 1.0; the IEEE special  *)
(* values are kept apart (nan, +inf, -inf).  A tensor is a node of the     *)
(* data-flow graph: a shape, its row-major elements, and "ok", which is    *)
(* FALSE when an assertion the node depends on (by data or by control      *)
(* dependency) fails, so that evaluating the node raises.                  *)
(***************************************************************************)
EXTENDS Integers, Sequences, FiniteSets, TLC

\* the float literal 1. of the source, in fixed point; products are rounded
\* to the nearest multiple of 1 / One
One == 1000

\* bounds of the model
MaxBatch == 2
MaxEventSize == 3
MaxN == 2
MaxSeed == 1

\* ------------------------------------------------------------------------
\* floating-point scalars
Fin(v) == [k |-> "fin", v |-> v]
NaN == [k |-> "nan", v |-> 0]
PosInf == [k |-> "inf", v |-> 1]
NegInf == [k |-> "inf", v |-> -1]

IsFin(x) == x.k = "fin"
IsNaN(x) == x.k = "nan"
IsInf(x) == x.k = "inf"
Sign(x) == IF IsInf(x) THEN x.v ELSE IF x.v > 0 THEN 1 ELSE IF x.v < 0 THEN -1 ELSE 0
Inf(s) == IF s > 0 THEN PosInf ELSE NegInf

neg(x) == IF IsNaN(x) THEN NaN ELSE [k |-> x.k, v |-> -x.v]

add(x, y) ==
  IF IsNaN(x) \/ IsNaN(y) THEN NaN
  ELSE IF IsInf(x) /\ IsInf(y) THEN (IF x.v = y.v THEN x ELSE NaN)
  ELSE IF IsInf(x) THEN x
  ELSE IF IsInf(y) THEN y
  ELSE Fin(x.v + y.v)

sub(x, y) == add(x, neg(y))

mul(x, y) ==
  IF IsNaN(x) \/ IsNaN(y) THEN NaN
  ELSE IF IsInf(x) \/ IsInf(y)
       THEN (IF Sign(x) * Sign(y) = 0 THEN NaN ELSE Inf(Sign(x) * Sign(y)))
  ELSE Fin((2 * x.v * y.v + One) \div (2 * One))

\* x < y; every comparison with nan is false
less(x, y) ==
  IF IsNaN(x) \/ IsNaN(y) THEN FALSE
  ELSE IF IsInf(x) /\ IsInf(y) THEN x.v < y.v
  ELSE IF IsInf(x) THEN x.v < 0
  ELSE IF IsInf(y) THEN y.v > 0
  ELSE x.v < y.v

greater(x, y) == less(y, x)
less_equal(x, y) == (~IsNaN(x)) /\ (~IsNaN(y)) /\ ~less(y, x)

\* natural logarithm, rounded to fixed point, on the arguments the model meets
LogTable ==
  (250 :> -1386) @@ (500 :> -693) @@ (750 :> -288) @@ (1000 :> 0) @@
  (1135 :> 127) @@ (1333 :> 287) @@ (1500 :> 405) @@ (2000 :> 693) @@
  (3998 :> 1386) @@ (8389 :> 2127)

log(x) ==
  IF IsNaN(x) THEN NaN
  ELSE IF IsInf(x) THEN (IF x.v > 0 THEN PosInf ELSE NaN)
  ELSE IF x.v < 0 THEN NaN
  ELSE IF x.v = 0 THEN NegInf
  ELSE Fin(LogTable[x.v])

ExpTable ==
  (-2127 :> 119) @@ (-2000 :> 135) @@ (-1385 :> 250) @@ (-1098 :> 333) @@
  (-693 :> 500) @@ (-287 :> 750) @@ (-127 :> 881) @@ (0 :> 1000) @@
  (1098 :> 2998) @@ (2000 :> 7389)

exp(x) ==
  IF IsNaN(x) THEN NaN
  ELSE IF IsInf(x) THEN (IF x.v > 0 THEN PosInf ELSE Fin(0))
  ELSE Fin(ExpTable[x.v])

SigmoidTable ==
  (-2000 :> 119) @@ (-1098 :> 250) @@ (0 :> 500) @@ (1098 :> 750) @@
  (2000 :> 881)

sigmoid(x) ==
  IF IsNaN(x) THEN NaN
  ELSE IF IsInf(x) THEN (IF x.v > 0 THEN Fin(One) ELSE Fin(0))
  ELSE Fin(SigmoidTable[x.v])

sqrt(x) ==
  IF IsNaN(x) THEN NaN
  ELSE IF IsInf(x) THEN (IF x.v > 0 THEN PosInf ELSE NaN)
  ELSE IF x.v < 0 THEN NaN
  ELSE Fin(CHOOSE r \in 0..(x.v + One) :
             r * r <= x.v * One /\ x.v * One < (r + 1) * (r + 1))

\* max(x, 0) - x * z + log(1 + exp(-abs(x)))
sigmoid_cross_entropy_with_logits(x, z) ==
  LET relu == IF less_equal(Fin(0), x) THEN x ELSE Fin(0)
      neg_abs == IF less_equal(Fin(0), x) THEN neg(x) ELSE x
  IN  add(sub(relu, mul(x, z)), log(add(Fin(One), exp(neg_abs))))

\* ------------------------------------------------------------------------
\* shapes and broadcasting
RECURSIVE NumElements(_)
NumElements(s) == IF s = <<>> THEN 1 ELSE Head(s) * NumElements(Tail(s))

Stride(s, k) == NumElements(SubSeq(s, k + 1, Len(s)))

Max(a, b) == IF a >= b THEN a ELSE b

\* s with leading 1s up to rank r
PadShape(s, r) ==
  [i \in 1..r |-> IF i <= r - Len(s) THEN 1 ELSE s[i - (r - Len(s))]]

BroadcastCompatible(a, b) ==
  LET r == Max(Len(a), Len(b))
      pa == PadShape(a, r)
      pb == PadShape(b, r)
  IN  \A i \in 1..r : pa[i] = pb[i] \/ pa[i] = 1 \/ pb[i] = 1

BroadcastShape(a, b) ==
  LET r == Max(Len(a), Len(b))
      pa == PadShape(a, r)
      pb == PadShape(b, r)
  IN  [i \in 1..r |-> IF pa[i] = 1 THEN pb[i] ELSE pa[i]]

\* the (1-based) element of a tensor of shape s that broadcasting to shape
\* out puts at the (1-based) position j of the result
BroadcastIndex(s, out, j) ==
  LET r == Len(out)
      ps == PadShape(s, r)
      coord(k) == ((j - 1) \div Stride(out, k)) % out[k]
      RECURSIVE Offset(_)
      Offset(k) == IF k > r THEN 0
                   ELSE (IF ps[k] = 1 THEN 0 ELSE coord(k) * Stride(ps, k))
                        + Offset(k + 1)
  IN  1 + Offset(1)

\* ------------------------------------------------------------------------
\* graph nodes
Tensor(s, v, ok) == [kind |-> "tensor", shape |-> s, val |-> v, ok |-> ok]
Error(what) == [kind |-> "error", what |-> what]
None == [kind |-> "none"]
Attr(v) == [kind |-> "attr", val |-> v]

IsNone(t) == t.kind = "none"
IsTensor(t) == t.kind = "tensor"
IsError(t) == t.kind = "error"

Scalar(x) == Tensor(<<>>, <<x>>, TRUE)

\* an elementwise binary op with broadcasting; incompatible shapes are a
\* shape error
BinaryOp(F(_, _), a, b) ==
  IF IsError(a) THEN a
  ELSE IF IsError(b) THEN b
  ELSE IF ~BroadcastCompatible(a.shape, b.shape) THEN Error("ShapeError")
  ELSE LET out == BroadcastShape(a.shape, b.shape)
       IN  Tensor(out,
                  [j \in 1..NumElements(out) |->
                     F(a.val[BroadcastIndex(a.shape, out, j)],
                       b.val[BroadcastIndex(b.shape, out, j)])],
                  a.ok /\ b.ok)

UnaryOp(F(_), a) ==
  IF IsError(a) THEN a
  ELSE Tensor(a.shape, [j \in 1..Len(a.val) |-> F(a.val[j])], a.ok)

\* running a node: a failed assertion upstream raises
Eval(t) ==
  IF IsError(t) THEN t
  ELSE IF ~t.ok THEN Error("InvalidArgumentError")
  ELSE [kind |-> "tensor", shape |-> t.shape, val |-> t.val]

\* ------------------------------------------------------------------------
\* the array primitives bernoulli.py calls
identity(t) == t

\* the nodes built inside "with ops.control_dependencies(deps)" run only
\* after every node of deps has run without raising
control_dependencies(deps, t) ==
  IF IsError(t) THEN t
  ELSE Tensor(t.shape, t.val, t.ok /\ \A i \in 1..Len(deps) : deps[i].ok)

\* an assertion node: running it raises unless x <= y holds element-wise
assert_less_equal(x, y) ==
  LET c == BinaryOp(less_equal, x, y)
  IN  Tensor(<<>>, <<>>, x.ok /\ y.ok /\ \A j \in 1..Len(c.val) : c.val[j])

shape(t) == IF IsError(t) THEN t ELSE Tensor(<<Len(t.shape)>>, t.shape, t.ok)

get_shape(t) == t.shape

constant(v) == Tensor(<<Len(v)>>, v, TRUE)

convert_to_tensor(x) == Tensor(<<>>, <<x>>, TRUE)

ones_like(t) == UnaryOp(LAMBDA x : Fin(One), t)

expand_dims(t) == IF IsError(t) THEN t ELSE Tensor(<<1>> \o t.shape, t.val, t.ok)

\* concatenation of two vectors along axis 0
concat(a, b) ==
  IF IsError(a) THEN a
  ELSE IF IsError(b) THEN b
  ELSE Tensor(<<Len(a.val) + Len(b.val)>>, a.val \o b.val, a.ok /\ b.ok)

\* to float32 from an integer tensor, to an integer type from a boolean one
cast(t, dtype) ==
  IF dtype = "float32"
  THEN UnaryOp(LAMBDA x : Fin(x * One), t)
  ELSE UnaryOp(LAMBDA b : IF b THEN 1 ELSE 0, t)

\* merging a static shape into a node: an incompatible shape raises
set_shape(t, s) ==
  IF IsError(t) THEN t
  ELSE IF t.shape = s THEN t
  ELSE Error("ValueError")

\* the j-th number of the stream a seed starts, as a fraction k / One of [0, 1)
RECURSIVE Stream(_, _)
Stream(seed, j) == IF j = 0 THEN seed ELSE (Stream(seed, j - 1) * 421 + 337) % One

\* seed = None leaves the choice of the stream to the runtime (auto)
random_uniform(new_shape, seed, auto) ==
  IF IsError(new_shape) THEN new_shape
  ELSE LET s == IF IsNone(seed) THEN auto ELSE seed.val
       IN  Tensor(new_shape.val,
                  [j \in 1..NumElements(new_shape.val) |-> Fin(Stream(s, j))],
                  new_shape.ok)

\* the loss primitive takes operands of one shape
nn_sigmoid_cross_entropy_with_logits(lg, targets) ==
  IF IsError(lg) THEN lg
  ELSE IF IsError(targets) THEN targets
  ELSE IF lg.shape # targets.shape THEN Error("ShapeError")
  ELSE BinaryOp(sigmoid_cross_entropy_with_logits, lg, targets)

\* ------------------------------------------------------------------------
\* class Bernoulli
check_op(x, y) == assert_less_equal(x, y)

\* ParameterError without its second branch
ParameterError_neither_only(lg, pr) ==
  IF IsNone(pr) /\ IsNone(lg) THEN Error("ValueError: Must pass p or logits.")
  ELSE None

\* the two parameter-count checks of the constructor
ParameterError(lg, pr) ==
  IF IsNone(pr) /\ IsNone(lg) THEN Error("ValueError: Must pass p or logits.")
  ELSE IF (~IsNone(pr)) /\ ~IsNone(lg)
       THEN Error("ValueError: Must pass either p or logits, not both.")
  ELSE None

\* CheckedP without the assertion 0 <= p
CheckedP_upper_only(pr, st) ==
  control_dependencies(
    IF st THEN <<assert_less_equal(pr, Scalar(Fin(One)))>> ELSE <<>>,
    identity(pr))

\* p built from the argument, behind the range assertions when strict
CheckedP(pr, st) ==
  control_dependencies(
    IF st THEN <<check_op(pr, Scalar(Fin(One))), check_op(Scalar(Fin(0)), pr)>>
    ELSE <<>>,
    identity(pr))

\* LogitsFromP reading the argument p instead of the asserted self._p
LogitsFromP_unchecked(pr, checked) ==
  BinaryOp(sub, UnaryOp(log, pr),
           UnaryOp(log, BinaryOp(sub, Scalar(Fin(One)), pr)))

LogitsFromP(pr, checked) ==
  BinaryOp(sub, UnaryOp(log, checked),
           UnaryOp(log, BinaryOp(sub, Scalar(Fin(One)), checked)))

__init__(lg, pr, dt, st, ss, nm) ==
  IF ~IsNone(ParameterError(lg, pr)) THEN ParameterError(lg, pr)
  ELSE LET _logits == IF IsNone(pr) THEN identity(lg)
                      ELSE LogitsFromP(pr, CheckedP(pr, st))
           _p == IF IsNone(pr) THEN UnaryOp(sigmoid, _logits)
                 ELSE CheckedP(pr, st)
       IN  [kind |-> "Bernoulli",
            strict_statistics |-> ss,
            name |-> nm,
            dtype |-> dt,
            strict |-> st,
            logits |-> _logits,
            p |-> _p,
            q |-> BinaryOp(sub, Scalar(Fin(One)), _p),
            batch_shape |-> shape(_logits),
            event_shape |-> constant(<<>>)]

batch_shape(self) == identity(self.batch_shape)

get_batch_shape(self) == get_shape(self.logits)

event_shape(self) == constant(<<>>)

get_event_shape(self) == <<>>

\* log_prob without the line that tiles event over the batch shape
log_prob_no_tile(self, event) ==
  LET ev == cast(event, "float32")
      lg == BinaryOp(mul, ones_like(ev), self.logits)
  IN  UnaryOp(neg, nn_sigmoid_cross_entropy_with_logits(lg, ev))

log_prob(self, event) ==
  LET ev == cast(event, "float32")
      lg == BinaryOp(mul, ones_like(ev), self.logits)
      ev2 == BinaryOp(mul, ones_like(self.logits), ev)
  IN  UnaryOp(neg, nn_sigmoid_cross_entropy_with_logits(lg, ev2))

\* Distribution.prob: the exponential of log_prob
prob(self, event) == UnaryOp(exp, log_prob(self, event))

SampleShape(self, n) ==
  concat(expand_dims(convert_to_tensor(n)), batch_shape(self))

SampleUniform(self, n, seed, auto) ==
  random_uniform(SampleShape(self, n), seed, auto)

\* sample that does not hand its seed to random_uniform
sample_unseeded(self, n, seed, auto) ==
  cast(set_shape(BinaryOp(less, SampleUniform(self, n, None, auto), self.p),
                 <<n>> \o get_batch_shape(self)),
       self.dtype)

\* sample with the operands of the comparison exchanged
sample_swapped(self, n, seed, auto) ==
  cast(set_shape(BinaryOp(less, self.p, SampleUniform(self, n, seed, auto)),
                 <<n>> \o get_batch_shape(self)),
       self.dtype)

sample(self, n, seed, auto) ==
  cast(set_shape(BinaryOp(less, SampleUniform(self, n, seed, auto), self.p),
                 <<n>> \o get_batch_shape(self)),
       self.dtype)

entropy(self) ==
  BinaryOp(add,
           BinaryOp(mul, UnaryOp(neg, self.logits),
                    BinaryOp(sub, UnaryOp(sigmoid, self.logits), Scalar(Fin(One)))),
           UnaryOp(log, BinaryOp(add, UnaryOp(exp, UnaryOp(neg, self.logits)),
                                 Scalar(Fin(One)))))

\* mean recomputed from the logits
mean_from_logits(self) == UnaryOp(sigmoid, self.logits)

mean(self) == identity(self.p)

\* mode with p >= q
mode_tie_one(self) == cast(BinaryOp(less_equal, self.q, self.p), self.dtype)

mode(self) == cast(BinaryOp(greater, self.p, self.q), self.dtype)

\* variance with p in the place of q
variance_p_squared(self) == BinaryOp(mul, self.p, self.p)

variance(self) == BinaryOp(mul, self.q, self.p)

std(self) == UnaryOp(sqrt, variance(self))

\* ------------------------------------------------------------------------
\* the inputs
PVals == {-500, 0, 500, 1000, 1500}
LVals == {-2000, 0, 1098}
\* (strict, dtype, strict_statistics, name): the defaults, and every one of
\* them changed
Options ==
  {<<TRUE, "int32", TRUE, "Bernoulli">>, <<FALSE, "int64", FALSE, "B">>}

BatchShapes == {<<>>} \cup {<<k>> : k \in 1..MaxBatch}

\* the shapes of rank at most 2 with at most MaxEventSize elements
EventShapes ==
  {<<>>} \cup {<<k>> : k \in 1..MaxEventSize}
         \cup {s \in {<<k, l>> : k \in 1..MaxEventSize, l \in 1..MaxEventSize} :
                 NumElements(s) <= MaxEventSize}

TensorsOver(S, s) ==
  {Tensor(s, v, TRUE) : v \in [1..NumElements(s) -> {Fin(x) : x \in S}]}

ProbInputs == UNION {TensorsOver(PVals, s) : s \in BatchShapes}
LogitsInputs == UNION {TensorsOver(LVals, s) : s \in BatchShapes}

\* binary events: 0 and 1 alternate, from either of them
EventInputs ==
  {Tensor(s, [j \in 1..NumElements(s) |-> (j + b) % 2], TRUE) :
     s \in EventShapes, b \in 0..1}

Seeds == {None} \cup {Attr(k) : k \in 0..MaxSeed}

\* ------------------------------------------------------------------------
\* the state
\* pc: where the caller is; args: what the constructor was called with;
\* dist: the instance; call, result: the operation that returned last and
\* what it returned; uniform: the random numbers that operation drew;
\* seeded: the latest sample call that gave a seed, what it returned, and
\* whether the seeded call before it had the same seed and n
VARIABLES pc, args, dist, call, result, uniform, seeded

vars == <<pc, args, dist, call, result, uniform, seeded>>

Init ==
  /\ pc = "start"
  /\ args = None
  /\ dist = None
  /\ call = [op |-> "none"]
  /\ result = None
  /\ uniform = None
  /\ seeded = None

\* Bernoulli(logits, p, dtype, strict, strict_statistics, name); with both
\* parameters given they are scalars
Construct ==
  /\ pc = "start"
  /\ \E lg \in LogitsInputs \cup {None}, pr \in ProbInputs \cup {None},
        opt \in Options :
    /\ IF IsNone(lg) THEN TRUE
       ELSE IF IsNone(pr) THEN TRUE
       ELSE lg.shape = <<>> /\ pr.shape = <<>>
    /\ args' = [logits |-> lg, p |-> pr, dtype |-> opt[2], strict |-> opt[1],
                strict_statistics |-> opt[3], name |-> opt[4]]
    /\ call' = [op |-> "__init__"]
    /\ LET r == __init__(lg, pr, opt[2], opt[1], opt[3], opt[4])
       IN  IF IsError(r)
           THEN pc' = "raised" /\ dist' = None /\ result' = r
           ELSE pc' = "done" /\ dist' = r /\ result' = None
    /\ UNCHANGED <<uniform, seeded>>

\* an operation that leaves the instance alone, draws no random number and
\* returns r
Returns(op, r) ==
  /\ pc = "ready"
  /\ pc' = "done"
  /\ call' = op
  /\ result' = r
  /\ uniform' = None
  /\ UNCHANGED <<args, dist, seeded>>

Get_strict_statistics ==
  Returns([op |-> "strict_statistics"], Attr(dist.strict_statistics))

Get_strict == Returns([op |-> "strict"], Attr(dist.strict))

Get_name == Returns([op |-> "name"], Attr(dist.name))

Get_dtype == Returns([op |-> "dtype"], Attr(dist.dtype))

Get_is_reparameterized == Returns([op |-> "is_reparameterized"], Attr(FALSE))

Get_is_continuous == Returns([op |-> "is_continuous"], Attr(FALSE))

Get_logits == Returns([op |-> "logits"], Eval(dist.logits))

Get_p == Returns([op |-> "p"], Eval(dist.p))

Get_q == Returns([op |-> "q"], Eval(dist.q))

Call_batch_shape == Returns([op |-> "batch_shape"], Eval(batch_shape(dist)))

Call_get_batch_shape ==
  Returns([op |-> "get_batch_shape"], Attr(get_batch_shape(dist)))

Call_event_shape == Returns([op |-> "event_shape"], Eval(event_shape(dist)))

Call_get_event_shape ==
  Returns([op |-> "get_event_shape"], Attr(get_event_shape(dist)))

Call_prob ==
  /\ pc = "ready"
  /\ \E event \in EventInputs :
    Returns([op |-> "prob", event |-> event], Eval(prob(dist, event)))

\* log_prob storing the tiled logits in the instance
Call_log_prob_rebinds ==
  /\ pc = "ready"
  /\ \E event \in EventInputs :
    /\ pc' = "done"
    /\ call' = [op |-> "log_prob", event |-> event]
    /\ result' = Eval(log_prob(dist, event))
    /\ uniform' = None
    /\ dist' = [dist EXCEPT !.logits =
                  BinaryOp(mul, ones_like(cast(event, "float32")), dist.logits)]
    /\ UNCHANGED <<args, seeded>>

Call_log_prob ==
  /\ pc = "ready"
  /\ \E event \in EventInputs :
    Returns([op |-> "log_prob", event |-> event], Eval(log_prob(dist, event)))

Call_sample ==
  /\ pc = "ready"
  /\ \E n \in 0..MaxN, seed \in Seeds, auto \in 0..MaxSeed :
    /\ pc' = "done"
    /\ call' = [op |-> "sample", n |-> n, seed |-> seed]
    /\ result' = Eval(sample(dist, n, seed, auto))
    /\ uniform' = SampleUniform(dist, n, seed, auto)
    /\ seeded' = IF IsNone(seed) THEN seeded
                 ELSE [kind |-> "sample", n |-> n, seed |-> seed,
                       result |-> Eval(sample(dist, n, seed, auto)),
                       repeated |-> IF IsNone(seeded) THEN FALSE
                                    ELSE seeded.seed = seed /\ seeded.n = n]
    /\ UNCHANGED <<args, dist>>

Call_entropy == Returns([op |-> "entropy"], Eval(entropy(dist)))

Call_mean == Returns([op |-> "mean"], Eval(mean(dist)))

Call_mode == Returns([op |-> "mode"], Eval(mode(dist)))

Call_variance == Returns([op |-> "variance"], Eval(variance(dist)))

Call_std == Returns([op |-> "std"], Eval(std(dist)))

\* the caller has taken the result and is ready for its next call
Continue ==
  /\ pc = "done"
  /\ pc' = "ready"
  /\ call' = [op |-> "none"]
  /\ result' = None
  /\ uniform' = None
  /\ UNCHANGED <<args, dist, seeded>>

Next ==
  \/ Construct
  \/ Continue
  \/ Get_strict_statistics
  \/ Get_strict
  \/ Get_name
  \/ Get_dtype
  \/ Get_is_reparameterized
  \/ Get_is_continuous
  \/ Get_logits
  \/ Get_p
  \/ Get_q
  \/ Call_batch_shape
  \/ Call_get_batch_shape
  \/ Call_event_shape
  \/ Call_get_event_shape
  \/ Call_prob
  \/ Call_log_prob
  \/ Call_sample
  \/ Call_entropy
  \/ Call_mean
  \/ Call_mode
  \/ Call_variance
  \/ Call_std

Spec == Init /\ [][Next]_vars

\* ------------------------------------------------------------------------
\* properties

Constructed == pc \in {"ready", "done"}
GivenP == pc # "start" /\ IsNone(args.logits) /\ ~IsNone(args.p)
GivenLogits == pc # "start" /\ IsNone(args.p) /\ ~IsNone(args.logits)
GivenBoth == pc # "start" /\ (~IsNone(args.logits)) /\ ~IsNone(args.p)
GivenNeither == pc # "start" /\ IsNone(args.logits) /\ IsNone(args.p)

\* some element of the tensor t of finite numbers lies outside [0, 1]
OutOfRange(t) == \E j \in 1..Len(t.val) : t.val[j].v < 0 \/ t.val[j].v > One
PInRange == \A j \in 1..Len(dist.p.val) : 0 <= dist.p.val[j].v /\ dist.p.val[j].v <= One
InvalidArgument(r) == IsError(r) /\ r.what = "InvalidArgumentError"

\* C1: a constructor call with both of p and logits, or with neither, raises
\* ValueError and produces no instance; a call with exactly one of them
\* passes the parameter-count check and produces an instance.
C1_ParameterCount ==
  /\ (GivenBoth \/ GivenNeither) =>
       pc = "raised" /\ IsError(result) /\ IsNone(dist)
  /\ (GivenP \/ GivenLogits) => Constructed /\ dist.kind = "Bernoulli"

C1_Witness ==
  /\ GivenBoth
  /\ pc = "raised"
  /\ result = Error("ValueError: Must pass either p or logits, not both.")

\* C2 as stated: with strict = true, a probability with an element outside
\* [0, 1] makes the constructor raise.
C2_RaisesAtConstruction ==
  (GivenP /\ args.strict /\ OutOfRange(args.p)) => pc = "raised"

\* C2 amended: with strict = true and a probability with an element outside
\* [0, 1], the constructor returns an instance, and evaluating the stored
\* probability raises the assertion failure.
C2_RaisesAtEvaluation ==
  (GivenP /\ args.strict /\ OutOfRange(args.p)) =>
    /\ Constructed
    /\ InvalidArgument(Eval(dist.p))
    /\ call.op = "p" => InvalidArgument(result)

C2_Witness ==
  /\ GivenP /\ args.strict
  /\ args.p.val = <<Fin(1500)>>
  /\ call.op = "p"
  /\ InvalidArgument(result)

\* C3: with strict = false, a probability with elements outside [0, 1] never
\* makes the constructor raise, and mean() returns the given probability
\* element for element.
C3_NonStrictMean ==
  (GivenP /\ (~args.strict) /\ OutOfRange(args.p)) =>
    /\ Constructed
    /\ call.op = "mean" =>
         /\ IsTensor(result)
         /\ result.shape = args.p.shape
         /\ result.val = args.p.val

C3_Witness ==
  /\ GivenP /\ ~args.strict
  /\ call.op = "mean"
  /\ args.p.val = <<Fin(1500)>>
  /\ result.val = <<Fin(1500)>>

\* C4: once constructed, no operation changes a stored field of the instance.
C4_Immutable == [][Constructed => (dist' = dist /\ Constructed')]_vars

C4_Witness ==
  /\ Constructed
  /\ call.op = "log_prob"
  /\ call.event.shape = <<2, 1>>
  /\ IsTensor(result)

\* the step is a sample call with the seed and the n of the latest seeded
\* sample call before it
RepeatsSeededSample ==
  /\ pc = "ready"
  /\ call'.op = "sample"
  /\ IF IsNone(call'.seed) THEN FALSE
     ELSE IF IsNone(seeded) THEN FALSE
     ELSE seeded.seed = call'.seed /\ seeded.n = call'.n

\* C5: a sample call with a seed returns the array that the latest earlier
\* sample call with that seed and that n returned, whatever was called in
\* between.
C5_SeededSampleRepeats == [][RepeatsSeededSample => result' = seeded.result]_vars

C5_Witness ==
  /\ call.op = "sample"
  /\ call.seed = Attr(1)
  /\ call.n = MaxN
  /\ seeded = [kind |-> "sample", n |-> call.n, seed |-> call.seed,
                result |-> result, repeated |-> TRUE]
  /\ IsTensor(result)
  /\ \E j \in 1..Len(result.val) : result.val[j] = 1
  /\ \E j \in 1..Len(result.val) : result.val[j] = 0

\* the number of elements of one batch
BatchSize == NumElements(dist.logits.shape)

\* C6: sample(n) has shape [n] + batch_shape, and each element is 1 exactly
\* when the uniform number drawn for it, which lies in [0, 1), is below the
\* probability at the element's batch position.
C6_SampleThreshold ==
  (Constructed /\ call.op = "sample" /\ IsTensor(result)) =>
    /\ result.shape = <<call.n>> \o dist.logits.shape
    /\ Len(result.val) = call.n * BatchSize
    /\ uniform.shape = result.shape
    /\ \A j \in 1..Len(result.val) :
         LET u == uniform.val[j].v
             pj == dist.p.val[((j - 1) % BatchSize) + 1].v
         IN  /\ 0 <= u /\ u < One
             /\ result.val[j] = (IF u < pj THEN 1 ELSE 0)
             /\ pj = 0 => result.val[j] = 0
             /\ pj = One => result.val[j] = 1

C6_Witness ==
  /\ Constructed /\ call.op = "sample" /\ IsTensor(result)
  /\ call.n = 2
  /\ dist.p.val = <<Fin(500), Fin(0)>>
  /\ result.shape = <<2, 2>>
  /\ \E j \in 1..Len(result.val) : result.val[j] = 1

\* C7: every element of mode() is 1 when the probability there is above its
\* complement, which is when it is above 0.5, and 0 otherwise, so 0 at 0.5.
C7_Mode ==
  (Constructed /\ call.op = "mode" /\ IsTensor(result)) =>
    /\ result.shape = dist.p.shape
    /\ \A j \in 1..Len(result.val) :
         LET pj == dist.p.val[j].v
         IN  /\ result.val[j] = (IF pj > One - pj THEN 1 ELSE 0)
             /\ result.val[j] = 1 <=> 2 * pj > One
             /\ result.val[j] \in {0, 1}

C7_Witness ==
  /\ Constructed /\ call.op = "mode"
  /\ dist.p.val = <<Fin(One \div 2), Fin(One)>>
  /\ result.val = <<0, 1>>

\* every element of a variance result is in [0, 0.25], and is 0.25 where the
\* probability is 0.5
VarianceBounded ==
  \A j \in 1..Len(result.val) :
    /\ 0 <= result.val[j].v
    /\ 4 * result.val[j].v <= One
    /\ 2 * dist.p.val[j].v = One => 4 * result.val[j].v = One

\* C8 as stated: every variance() of a constructed instance is bounded so.
C8_VarianceAlwaysBounded ==
  (Constructed /\ call.op = "variance" /\ IsTensor(result)) => VarianceBounded

\* C8 amended: variance() is bounded so for every instance whose probability
\* lies in [0, 1] element-wise.
C8_VarianceBoundedInRange ==
  (Constructed /\ call.op = "variance" /\ IsTensor(result) /\ PInRange) =>
    VarianceBounded

C8_Witness ==
  /\ Constructed /\ call.op = "variance"
  /\ dist.p.val = <<Fin(One \div 2), Fin(One)>>
  /\ result.val = <<Fin(One \div 4), Fin(0)>>

\* C9: log_prob(event) of shapes that broadcast together has the broadcast
\* shape, each element computed from the event element and the logits
\* element broadcasting puts there; of shapes that do not, it fails with a
\* shape error.
C9_LogProbBroadcast ==
  (Constructed /\ call.op = "log_prob") =>
    LET es == call.event.shape
        bs == dist.logits.shape
    IN  IF BroadcastCompatible(es, bs)
        THEN dist.logits.ok =>
               /\ IsTensor(result)
               /\ result.shape = BroadcastShape(es, bs)
               /\ Len(result.val) = NumElements(result.shape)
               /\ \A j \in 1..Len(result.val) :
                    result.val[j] =
                      neg(sigmoid_cross_entropy_with_logits(
                            dist.logits.val[BroadcastIndex(bs, result.shape, j)],
                            Fin(One * call.event.val[
                                        BroadcastIndex(es, result.shape, j)])))
        ELSE IsError(result) /\ result.what = "ShapeError"

C9_Witness ==
  /\ Constructed /\ call.op = "log_prob"
  /\ call.event.shape = <<2, 1>>
  /\ dist.logits.shape = <<2>>
  /\ IsTensor(result)
  /\ result.shape = <<2, 2>>

\* the operations whose result is computed from the probability
UsesP ==
  {"logits", "p", "q", "mean", "mode", "variance", "std", "entropy",
   "log_prob", "prob", "sample", "batch_shape"}

\* C10: with strict = true and a probability with an element outside [0, 1],
\* no operation computed from the probability yields a value; its evaluation
\* ends in the assertion failure (a call that cannot be built for its shapes
\* fails before it).
C10_CheckedBeforeUse ==
  (Constructed /\ GivenP /\ args.strict /\ OutOfRange(args.p)
     /\ call.op \in UsesP) =>
    /\ IsError(result)
    /\ result.what # "InvalidArgumentError" =>
         /\ call.op \in {"log_prob", "prob"}
         /\ ~BroadcastCompatible(call.event.shape, dist.logits.shape)

C10_Witness ==
  /\ Constructed /\ GivenP /\ args.strict
  /\ args.p.val = <<Fin(500), Fin(-500)>>
  /\ call.op = "batch_shape"
  /\ InvalidArgument(result)

====
